---------------------------- MODULE Spec2Model ----------------------------
(***************************************************************************)
(* Group comparison (Comparison.py) and infection early-warning           *)
(* (event_linking_basic.py) of the HCT digital-biomarker repository.      *)
(*                                                                         *)
(* Numbers.  The scripts compute in floating point; the model computes in *)
(* exact rationals <<n, d>> (d > 0, lowest terms).  NaN is <<0, 0>>.      *)
(* A quantity obtained through a square root (a standard deviation, a     *)
(* Cohen's d, a t statistic, an sd_change) is kept as a signed root       *)
(* <<s, q>>: the real number s * sqrt(q), q a non-negative rational.      *)
(***************************************************************************)
EXTENDS Integers, Sequences, FiniteSets, TLC

(***************************************************************************)
(* Bounds of the model.                                                    *)
(***************************************************************************)
\* longest batch of p-values handed to bh_fdr in SpecBH
MaxBatch == 3

\* how many of the candidate physiological metrics the script is run with
MaxPhysio == 1

\* rows of each day-level dataset
NRows == 4

\* longest sample handed to cohen_d, welch_ttest and compare_groups in SpecStat
MaxLen == 3

\* how many of METRICS the early-warning functions are run with
MaxMetrics == 2

\* longest events table handed to compute_summary in SpecEW
MaxEvents == 2

(***************************************************************************)
(* Rational arithmetic with NaN (IEEE: NaN propagates, compares false).    *)
(***************************************************************************)
NaN == <<0, 0>>

IsNaN(x) == x[2] = 0

notna(x) == ~IsNaN(x)

Abs(i) == IF i < 0 THEN -i ELSE i

Sgn(i) == IF i < 0 THEN -1 ELSE IF i > 0 THEN 1 ELSE 0

RECURSIVE GCD(_, _)
GCD(a, b) == IF b = 0 THEN a ELSE GCD(b, a % b)

\* the rational n/d in lowest terms with a positive denominator (d # 0)
R(n, d) ==
    LET g == GCD(Abs(n), Abs(d))
        s == IF d < 0 THEN -1 ELSE 1
    IN  <<(s * n) \div g, (s * d) \div g>>

Num(i) == <<i, 1>>

RAdd(x, y) == IF IsNaN(x) \/ IsNaN(y) THEN NaN
              ELSE R(x[1] * y[2] + y[1] * x[2], x[2] * y[2])

RSub(x, y) == IF IsNaN(x) \/ IsNaN(y) THEN NaN
              ELSE R(x[1] * y[2] - y[1] * x[2], x[2] * y[2])

RMul(x, y) == IF IsNaN(x) \/ IsNaN(y) THEN NaN
              ELSE R(x[1] * y[1], x[2] * y[2])

\* x / y for y # 0 (every division of the scripts modelled here is guarded
\* or divides by a positive count)
RDiv(x, y) == IF IsNaN(x) \/ IsNaN(y) \/ y[1] = 0 THEN NaN
              ELSE R(x[1] * y[2], x[2] * y[1])

RLe(x, y) == notna(x) /\ notna(y) /\ x[1] * y[2] <= y[1] * x[2]

RLt(x, y) == notna(x) /\ notna(y) /\ x[1] * y[2] < y[1] * x[2]

REq(x, y) == notna(x) /\ notna(y) /\ x[1] * y[2] = y[1] * x[2]

\* np.minimum: propagates NaN
RMin(x, y) == IF IsNaN(x) \/ IsNaN(y) THEN NaN ELSE IF RLe(x, y) THEN x ELSE y

RMax(x, y) == IF IsNaN(x) \/ IsNaN(y) THEN NaN ELSE IF RLe(x, y) THEN y ELSE x

Range(s) == {s[i] : i \in DOMAIN s}

Reverse(s) == [i \in 1..Len(s) |-> s[Len(s) + 1 - i]]

(***************************************************************************)
(* Signed roots: <<s, q>> is s * sqrt(q); <<0, NaN>> is NaN and            *)
(* <<s, Inf>> is +-infinity.                                               *)
(***************************************************************************)
Inf == <<1, 0>>

SNaN == <<0, NaN>>

SInf(s) == <<s, Inf>>

SIsNaN(x) == x[2] = NaN

\* np.sqrt(q) for q >= 0
sqrt(q) == IF IsNaN(q) \/ q[1] < 0 THEN SNaN ELSE <<Sgn(q[1]), q>>

\* x / sqrt(q) for a rational x and q > 0
DivBySqrt(x, q) ==
    IF IsNaN(x) \/ IsNaN(q) \/ q[1] <= 0 THEN SNaN
    ELSE <<Sgn(x[1]), RDiv(RMul(x, x), q)>>

\* s * sqrt(q) <= r for a finite signed root and a rational r
SLe(x, r) ==
    /\ ~SIsNaN(x) /\ x[2] # Inf /\ notna(r)
    /\ IF x[1] >= 0
       THEN r[1] >= 0 /\ RLe(x[2], RMul(r, r))
       ELSE r[1] >= 0 \/ RLe(RMul(r, r), x[2])

SNeg(x) == <<-x[1], x[2]>>

(***************************************************************************)
(* pandas Series reductions (skipna is moot: the callers drop NaN first).  *)
(***************************************************************************)
dropna(s) == SelectSeq(s, notna)

RECURSIVE Sum(_)
Sum(s) == IF Len(s) = 0 THEN Num(0) ELSE RAdd(s[1], Sum(Tail(s)))

\* Series.mean()
mean(s) == IF Len(s) = 0 THEN NaN ELSE RDiv(Sum(s), Num(Len(s)))

\* Series.var(ddof=1)
var(s) ==
    IF Len(s) < 2 THEN NaN
    ELSE LET m  == mean(s)
             sq == [i \in 1..Len(s) |-> RMul(RSub(s[i], m), RSub(s[i], m))]
         IN  RDiv(Sum(sq), Num(Len(s) - 1))

\* Series.std(ddof=1)
std(s) == sqrt(var(s))

(***************************************************************************)
(* Comparison.py: cohen_d, welch_ttest                                     *)
(***************************************************************************)
\* line 37: the pooled variance
pooled_variance(x, y) ==
    LET n1 == Len(x)
        n2 == Len(y)
    IN  RDiv(RAdd(RMul(Num(n1 - 1), var(x)), RMul(Num(n2 - 1), var(y))),
             Num(n1 + n2 - 2))

\* cohen_d returning 0 instead of NaN for a non-positive pooled variance
cohen_d_zero(xs, ys) ==
    LET x   == dropna(xs)
        y   == dropna(ys)
        sp2 == pooled_variance(x, y)
    IN  IF Len(x) < 2 \/ Len(y) < 2 THEN SNaN
        ELSE IF RLe(sp2, Num(0)) \/ IsNaN(sp2) THEN <<0, Num(0)>>
        ELSE DivBySqrt(RSub(mean(x), mean(y)), sp2)

\* cohen_d reporting the magnitude of the difference only
cohen_d_magnitude(xs, ys) ==
    LET x   == dropna(xs)
        y   == dropna(ys)
        sp2 == pooled_variance(x, y)
        d   == DivBySqrt(RSub(mean(x), mean(y)), sp2)
    IN  IF Len(x) < 2 \/ Len(y) < 2 THEN SNaN
        ELSE IF RLe(sp2, Num(0)) \/ IsNaN(sp2) THEN SNaN
        ELSE <<Abs(d[1]), d[2]>>

\* lines 29-41
cohen_d(xs, ys) ==
    LET x   == dropna(xs)
        y   == dropna(ys)
        sp2 == pooled_variance(x, y)
    IN  IF Len(x) < 2 \/ Len(y) < 2 THEN SNaN
        ELSE IF RLe(sp2, Num(0)) \/ IsNaN(sp2) THEN SNaN
        ELSE DivBySqrt(RSub(mean(x), mean(y)), sp2)

\* p-values scipy may report for a computable test
PValues == {R(1, 100), R(1, 5)}

\* scipy.stats.ttest_ind(x, y, equal_var=False) on NaN-free samples of at
\* least 2 values: the statistic is (mean x - mean y) / sqrt(v1/n1 + v2/n2);
\* the p-value is a tail probability of Student's t, which the model leaves
\* open (any value of PValues).  With both samples constant the denominator
\* is 0: scipy then reports (+-inf, 0), or (nan, nan) when the means agree
\* or when the release treats constant input as not computable.
ttest_ind(x, y) ==
    LET se2  == RAdd(RDiv(var(x), Num(Len(x))), RDiv(var(y), Num(Len(y))))
        diff == RSub(mean(x), mean(y))
    IN  IF se2[1] > 0
        THEN {[t |-> DivBySqrt(diff, se2), p |-> p] : p \in PValues}
        ELSE IF diff[1] = 0
        THEN {[t |-> SNaN, p |-> NaN]}
        ELSE {[t |-> SInf(Sgn(diff[1])), p |-> Num(0)], [t |-> SNaN, p |-> NaN]}

\* welch_ttest testing the sample sizes before the missing values are dropped
welch_ttest_raw_length(xs, ys) ==
    LET x == dropna(xs)
        y == dropna(ys)
    IN  IF Len(xs) < 2 \/ Len(ys) < 2 THEN {[t |-> SNaN, p |-> NaN]}
        ELSE ttest_ind(x, y)

\* lines 43-50: the set of (t, p) welch_ttest may return
welch_ttest(xs, ys) ==
    LET x == dropna(xs)
        y == dropna(ys)
    IN  IF Len(x) < 2 \/ Len(y) < 2 THEN {[t |-> SNaN, p |-> NaN]}
        ELSE ttest_ind(x, y)

(***************************************************************************)
(* Comparison.py: bh_fdr                                                   *)
(***************************************************************************)
\* np.argsort: position i comes before position j (NaN sorts last; equal
\* keys keep their input order, as numpy's sort does on short arrays)
SortsBefore(s, i, j) ==
    \/ RLt(s[i], s[j])
    \/ notna(s[i]) /\ IsNaN(s[j])
    \/ (REq(s[i], s[j]) \/ (IsNaN(s[i]) /\ IsNaN(s[j]))) /\ i < j

argsort(s) ==
    [k \in 1..Len(s) |->
        CHOOSE i \in 1..Len(s) :
            Cardinality({j \in 1..Len(s) : SortsBefore(s, j, i)}) = k - 1]

\* np.minimum.accumulate
RECURSIVE minimum_accumulate(_)
minimum_accumulate(s) ==
    IF Len(s) <= 1 THEN s
    ELSE LET head == minimum_accumulate(SubSeq(s, 1, Len(s) - 1))
         IN  Append(head, RMin(head[Len(head)], s[Len(s)]))

\* np.clip(x, lo, hi) = minimum(maximum(x, lo), hi)
clip(x, lo, hi) == RMin(RMax(x, lo), hi)

\* line 59: (pvals[order] * n) / ranked[::-1]
bh_scaled(pvals, order) ==
    LET n      == Len(pvals)
        ranked == [k \in 1..n |-> k]
    IN  [k \in 1..n |-> RDiv(RMul(pvals[order[k]], Num(n)), Num(Reverse(ranked)[k]))]

\* lines 56-60: p_adj[order] = np.minimum.accumulate(...)[::-1], then clip
bh_p_adj(pvals) ==
    LET n     == Len(pvals)
        order == argsort(pvals)
        rhs   == Reverse(minimum_accumulate(bh_scaled(pvals, order)))
        pos(i) == CHOOSE k \in 1..n : order[k] = i
    IN  [i \in 1..n |-> clip(rhs[pos(i)], Num(0), Num(1))]

\* bh_fdr(pvals, alpha) -> (reject, p_adj)
bh_fdr(pvals, alpha) ==
    LET p_adj == bh_p_adj(pvals)
    IN  [reject |-> [i \in 1..Len(pvals) |-> RLe(p_adj[i], alpha)],
         p_adj  |-> p_adj]

(***************************************************************************)
(* Comparison.py: datasets, compare_groups                                 *)
(*                                                                         *)
(* A dataset is [columns |-> set of names, rows |-> sequence of rows]; a   *)
(* row holds its demographic cells (role, gender: read only when the      *)
(* column is in columns) and vals, its cell of each metric column.        *)
(***************************************************************************)
\* df[col] at one row
Cell(row, col) ==
    IF col = "role" THEN row.role
    ELSE IF col = "gender" THEN row.gender
    ELSE row.vals[col]

\* lines 19-26 and 136: the candidate lists (PHYSIO_METRICS + sleep_efficiency)
PHYSIO_METRICS ==
    <<"total_steps", "mean_hr", "sleep_duration", "percent_active",
      "ASLEEP_MIN", "INBED_VALUE", "sleep_efficiency">>

PSYCH_METRICS == <<"MOOD">>

\* the candidates the model runs the script with
PhysioCandidates == SubSeq(PHYSIO_METRICS, 1, MaxPhysio)

PsychCandidates == PSYCH_METRICS

None == [none |-> TRUE]

\* df.loc[df[group_col] == g, metric]
Cohort(df, metric, group_col, g) ==
    LET keep(row) == Cell(row, group_col) = g
        sel == SelectSeq(df.rows, keep)
    IN  [i \in 1..Len(sel) |-> Cell(sel[i], metric)]

\* lines 111-125: the summary dict of one comparison
SummaryDict(metric, group_col, g1, g2, a, b, tp, d) ==
    [metric    |-> metric,
     group_col |-> group_col,
     group1    |-> g1,
     group2    |-> g2,
     n1        |-> Len(a),
     n2        |-> Len(b),
     mean1     |-> mean(a),
     sd1       |-> std(a),
     mean2     |-> mean(b),
     sd2       |-> std(b),
     t_stat    |-> tp.t,
     p_value   |-> tp.p,
     cohens_d  |-> d]

\* compare_groups asking for 1 value per cohort instead of 2
compare_groups_min1(df, metric, group_col, g1, g2) ==
    IF metric \notin df.columns \/ group_col \notin df.columns THEN {None}
    ELSE LET a == dropna(Cohort(df, metric, group_col, g1))
             b == dropna(Cohort(df, metric, group_col, g2))
         IN  IF Len(a) < 1 \/ Len(b) < 1 THEN {None}
             ELSE {SummaryDict(metric, group_col, g1, g2, a, b, tp, cohen_d(a, b)) :
                       tp \in welch_ttest(a, b)}

\* lines 101-125: the set of values compare_groups may return (None, or one
\* summary dict per outcome of the library's test)
compare_groups(df, metric, group_col, g1, g2) ==
    IF metric \notin df.columns \/ group_col \notin df.columns THEN {None}
    ELSE LET a == dropna(Cohort(df, metric, group_col, g1))
             b == dropna(Cohort(df, metric, group_col, g2))
         IN  IF Len(a) < 2 \/ Len(b) < 2 THEN {None}
             ELSE {SummaryDict(metric, group_col, g1, g2, a, b, tp, cohen_d(a, b)) :
                       tp \in welch_ttest(a, b)}

\* lines 136-137: the candidates that are columns of the dataset
metrics_exist(candidates, df) ==
    LET isColumn(m) == m \in df.columns
    IN  SelectSeq(candidates, isColumn)

\* the correction written over the raw p-value of each result as well
with_fdr_overwriting(results, alpha) ==
    LET pvals == [i \in 1..Len(results) |-> results[i].p_value]
        out   == bh_fdr(pvals, alpha)
    IN  [i \in 1..Len(results) |->
            [results[i] EXCEPT !.p_value = out.p_adj[i]]
                @@ [p_adj_fdr |-> out.p_adj[i], reject_fdr |-> out.reject[i]]]

\* lines 154-158 / 187-191: the correction written back onto the results
with_fdr(results, alpha) ==
    LET pvals == [i \in 1..Len(results) |-> results[i].p_value]
        out   == bh_fdr(pvals, alpha)
    IN  [i \in 1..Len(results) |->
            results[i] @@ [p_adj_fdr |-> out.p_adj[i], reject_fdr |-> out.reject[i]]]

\* the two contrasts of the script
Contrast(family) ==
    IF family = "role"
    THEN [group_col |-> "role", g1 |-> "Patients", g2 |-> "Caregivers"]
    ELSE [group_col |-> "gender", g1 |-> "Male", g2 |-> "Female"]

\* lines 140-191 in program order: one item per call of compare_groups (one
\* per iteration of the four loops; the gender loops run only over a dataset
\* that has a gender column) and one per correction block
Items(family, dataset, df, candidates) ==
    LET ms == metrics_exist(candidates, df)
    IN  IF family = "gender" /\ "gender" \notin df.columns THEN <<>>
        ELSE [i \in 1..Len(ms) |->
                 [op |-> "compare", family |-> family, dataset |-> dataset,
                  metric |-> ms[i]]]

FdrItem(family) ==
    <<[op |-> "fdr", family |-> family, dataset |-> "", metric |-> ""]>>

\* the script with each correction block moved before the psychological loop
Program_FdrBeforePsych(ph, ps) ==
    Items("role", "physio", ph, PhysioCandidates)
        \o FdrItem("role")
        \o Items("role", "psych", ps, PsychCandidates)
        \o Items("gender", "physio", ph, PhysioCandidates)
        \o FdrItem("gender")
        \o Items("gender", "psych", ps, PsychCandidates)

Program(ph, ps) ==
    Items("role", "physio", ph, PhysioCandidates)
        \o Items("role", "psych", ps, PsychCandidates)
        \o FdrItem("role")
        \o Items("gender", "physio", ph, PhysioCandidates)
        \o Items("gender", "psych", ps, PsychCandidates)
        \o FdrItem("gender")

(***************************************************************************)
(* event_linking_basic.py: Windows, summarize_event, compute_summary       *)
(*                                                                         *)
(* A participant table is [columns |-> set of names, rows |-> sequence];  *)
(* a row is [STUDY_PRTCPT_ID, DaysFromTransplant, vals], vals its cell of  *)
(* each metric column.                                                     *)
(***************************************************************************)
\* line 16
METRICS == <<"percent_active", "total_steps", "mean_hr", "sleep_duration">>

\* lines 19-20 and 29-34: Windows()
Windows == [pre_start |-> -7, pre_end |-> -1, base_start |-> -30, base_end |-> -14]

\* lines 23-24
PCT_DROP_THRESHOLD == R(-15, 100)

SD_DROP_THRESHOLD == R(-50, 100)

\* lines 56-57: p[(day >= event_day + start) & (day <= event_day + end)]
Window(p, event_day, start, end) ==
    LET inside(row) ==
            /\ RLe(RAdd(event_day, Num(start)), row.DaysFromTransplant)
            /\ RLe(row.DaysFromTransplant, RAdd(event_day, Num(end)))
    IN  SelectSeq(p.rows, inside)

\* pre[m] / base[m]
Column(rows, m) == [i \in 1..Len(rows) |-> rows[i].vals[m]]

\* pct_change with the baseline mean wanted positive instead of non-zero
pct_change_positive_only(p_mean, b_mean) ==
    IF notna(b_mean) /\ b_mean[1] > 0 THEN RDiv(RSub(p_mean, b_mean), b_mean) ELSE NaN

\* line 75
pct_change(p_mean, b_mean) ==
    IF notna(b_mean) /\ b_mean[1] # 0 THEN RDiv(RSub(p_mean, b_mean), b_mean) ELSE NaN

\* sd_change reported as 0 instead of NaN for a baseline without spread
sd_change_zero(p_mean, b_mean, b_sd) ==
    IF ~SIsNaN(b_sd) /\ b_sd[1] > 0 THEN DivBySqrt(RSub(p_mean, b_mean), b_sd[2])
    ELSE <<0, Num(0)>>

\* line 76
sd_change(p_mean, b_mean, b_sd) ==
    IF ~SIsNaN(b_sd) /\ b_sd[1] > 0 THEN DivBySqrt(RSub(p_mean, b_mean), b_sd[2])
    ELSE SNaN

\* the percent flag with a strict comparison
warn_pct_drop_strict(pct) == notna(pct) /\ RLt(pct, PCT_DROP_THRESHOLD)

\* line 86
warn_pct_drop(pct) == notna(pct) /\ RLe(pct, PCT_DROP_THRESHOLD)

\* line 87
warn_sd_drop(sdchg) == ~SIsNaN(sdchg) /\ SLe(sdchg, SD_DROP_THRESHOLD)

\* lines 70-88: the row of one metric
WindowRow(m, pre_vals, base_vals) ==
    LET b_mean == mean(base_vals)
        b_sd   == std(base_vals)
        p_mean == mean(pre_vals)
        pct    == pct_change(p_mean, b_mean)
        sdchg  == sd_change(p_mean, b_mean, b_sd)
    IN  [metric               |-> m,
         baseline_mean        |-> b_mean,
         baseline_sd          |-> b_sd,
         pre7_mean            |-> p_mean,
         delta_pre_minus_base |-> RSub(p_mean, b_mean),
         pct_change           |-> pct,
         sd_change            |-> sdchg,
         warn_pct_drop        |-> warn_pct_drop(pct),
         warn_sd_drop         |-> warn_sd_drop(sdchg)]

\* the per-metric test asking for 1 value per window instead of 2
enough_values_min1(pre_vals, base_vals) == ~(Len(pre_vals) < 1 \/ Len(base_vals) < 1)

\* line 67 (negated): the metric is not skipped
enough_values(pre_vals, base_vals) == ~(Len(pre_vals) < 2 \/ Len(base_vals) < 2)

\* lines 61-88: the loop over metrics[k..]
RECURSIVE MetricRows(_, _, _, _, _)
MetricRows(p, pre, base, metrics, k) ==
    IF k > Len(metrics) THEN <<>>
    ELSE LET m    == metrics[k]
             rest == MetricRows(p, pre, base, metrics, k + 1)
         IN  IF m \notin p.columns THEN rest
             ELSE LET pre_vals  == dropna(Column(pre, m))
                      base_vals == dropna(Column(base, m))
                  IN  IF ~enough_values(pre_vals, base_vals) THEN rest
                      ELSE <<WindowRow(m, pre_vals, base_vals)>> \o rest

\* lines 50-89
summarize_event(p, event_day, metrics, w) ==
    LET pre  == Window(p, event_day, w.pre_start, w.pre_end)
        base == Window(p, event_day, w.base_start, w.base_end)
    IN  IF Len(pre) < 2 \/ Len(base) < 2 THEN <<>>
        ELSE MetricRows(p, pre, base, metrics, 1)

\* int(x): truncation toward zero
int(x) == Sgn(x[1]) * (Abs(x[1]) \div x[2])

\* the whole table taken as the reference of every participant
RowsOfParticipant_cohort(physio_table, pid) == physio_table

\* line 95: physio.loc[physio["STUDY_PRTCPT_ID"] == pid]
RowsOfParticipant(physio_table, pid) ==
    LET mine(row) == row.STUDY_PRTCPT_ID = pid
    IN  [columns |-> physio_table.columns, rows |-> SelectSeq(physio_table.rows, mine)]

\* lines 99-101: r.update({"STUDY_PRTCPT_ID": pid, "event_day": e_day})
Tagged(rows, pid, e_day) ==
    [i \in 1..Len(rows) |-> rows[i] @@ [STUDY_PRTCPT_ID |-> pid, event_day |-> e_day]]

\* lines 93-101: what one iteration of compute_summary appends to out
EventRows(physio_table, ev, metrics) ==
    LET pid   == ev.STUDY_PRTCPT_ID
        e_day == int(ev.event_day)
        p     == RowsOfParticipant(physio_table, pid)
    IN  IF p.rows = <<>> THEN <<>>
        ELSE Tagged(summarize_event(p, Num(e_day), metrics, Windows), pid, e_day)

\* lines 56-57 as reached from line 98: the two samples summarize_event
\* takes for one event
EventSamples(physio_table, ev) ==
    LET p     == RowsOfParticipant(physio_table, ev.STUDY_PRTCPT_ID)
        e_day == Num(int(ev.event_day))
    IN  [pre  |-> Window(p, e_day, Windows.pre_start, Windows.pre_end),
         base |-> Window(p, e_day, Windows.base_start, Windows.base_end)]

\* groupby("metric") orders its groups by key: METRICS in string order
SortedMetrics == <<"mean_hr", "percent_active", "sleep_duration", "total_steps">>

\* the rational value of a signed root whose radicand is the square of a
\* rational (no input of the model yields an sd_change of another kind)
RootValue(x) ==
    IF SIsNaN(x) THEN NaN
    ELSE LET root(n) == CHOOSE k \in 0..n : k * k = n
         IN  R(x[1] * root(x[2][1]), root(x[2][2]))

\* the mean of a column with its missing values counted as zeros
mean_zero_filled(vals) ==
    mean([i \in 1..Len(vals) |-> IF IsNaN(vals[i]) THEN Num(0) ELSE vals[i]])

\* line 115: GroupBy.mean() of a float column skips its missing values
mean_skipna(vals) == mean(dropna(vals))

\* the share of flagged rows among the rows whose change is defined
share_among_defined(rows, flag) ==
    LET defined(r) == IF flag = "warn_pct_drop" THEN notna(r.pct_change)
                      ELSE ~SIsNaN(r.sd_change)
        flagged(r) == r[flag]
    IN  IF SelectSeq(rows, defined) = <<>> THEN NaN
        ELSE R(Len(SelectSeq(rows, flagged)), Len(SelectSeq(rows, defined)))

\* line 110: GroupBy.mean() of a bool column, the share of True among its rows
share(rows, flag) ==
    LET flagged(r) == r[flag]
    IN  R(Len(SelectSeq(rows, flagged)), Len(rows))

\* lines 110-116: the overview row of one metric
OverviewRow(summary, m) ==
    LET ofMetric(r) == r.metric = m
        g == SelectSeq(summary, ofMetric)
    IN  [metric                      |-> m,
         share_events_flagged_by_pct |-> share(g, "warn_pct_drop"),
         share_events_flagged_by_sd  |-> share(g, "warn_sd_drop"),
         delta_pre_minus_base        |-> mean_skipna([i \in 1..Len(g) |-> g[i].delta_pre_minus_base]),
         pct_change                  |-> mean_skipna([i \in 1..Len(g) |-> g[i].pct_change]),
         sd_change                   |-> mean_skipna([i \in 1..Len(g) |-> RootValue(g[i].sd_change)])]

\* lines 104-121: an empty summary is returned as it is; otherwise one row per
\* metric of the summary, in key order
build_overview(summary) ==
    LET inSummary(m) == \E i \in DOMAIN summary : summary[i].metric = m
        keys == SelectSeq(SortedMetrics, inSummary)
    IN  IF summary = <<>> THEN <<>>
        ELSE [k \in 1..Len(keys) |-> OverviewRow(summary, keys[k])]

NoOutput == [reject |-> <<>>, p_adj |-> <<>>]

(***************************************************************************)
(* State                                                                   *)
(***************************************************************************)
VARIABLES
    bh_pc,      \* SpecBH: "call" before bh_fdr has run, "done" after
    bh_pvals,   \* SpecBH: the batch handed to bh_fdr
    bh_alpha,   \* SpecBH: the significance level handed to bh_fdr
    bh_out,     \* SpecBH: what bh_fdr returned
    physio,     \* Comparison.py: the physiological day-level dataset
    psych,      \* Comparison.py: the psychological day-level dataset
    pc,         \* Comparison.py: index of the next item of Program
    results_role,    \* Comparison.py: results of Patients vs Caregivers
    results_gender,  \* Comparison.py: results of Male vs Female
    cg_calls,   \* history: the calls of compare_groups made so far
    bh_calls,   \* history: the calls of bh_fdr made so far
    st_pc,      \* SpecStat: "call", or the function that has run
    st_x,       \* SpecStat: the first sample
    st_y,       \* SpecStat: the second sample
    st_out,     \* SpecStat: what the function returned
    se_pc,      \* SpecSE: "call" before summarize_event has run, "returned" after
    se_p,       \* SpecSE: the participant table handed to summarize_event
    se_event_day,   \* SpecSE: the event day handed to summarize_event
    se_w,       \* SpecSE: the Windows handed to summarize_event
    se_rows,    \* SpecSE: the rows summarize_event returned
    ew_physio,  \* compute_summary: the physio table
    ew_events,  \* compute_summary: the events table
    ew_i,       \* compute_summary: index of the next event of the loop
    ew_out,     \* compute_summary: out, the rows collected so far
    ew_samples, \* history: the samples summarize_event took, per event
    ew_overview,    \* main: what build_overview returned
    ew_pc,      \* main: "compute_summary" until build_overview has run, then "done"
    tw_lib,     \* SpecTwice: the statistics library the runs share
    tw_run,     \* SpecTwice: the number of the next run of the role block
    tw_first    \* SpecTwice: the result table of the first run

bhVars == <<bh_pc, bh_pvals, bh_alpha, bh_out>>

cmpVars == <<physio, psych, pc, results_role, results_gender, cg_calls, bh_calls>>

stVars == <<st_pc, st_x, st_y, st_out>>

seVars == <<se_pc, se_p, se_event_day, se_w, se_rows>>

ewVars == <<ew_physio, ew_events, ew_i, ew_out, ew_samples, ew_overview, ew_pc>>

twVars == <<tw_lib, tw_run, tw_first>>

vars == <<bhVars, cmpVars, stVars, seVars, ewVars, twVars>>

\* the variables of a script that a specification does not run
CmpIdle ==
    /\ physio = [columns |-> {}, rows |-> <<>>]
    /\ psych = [columns |-> {}, rows |-> <<>>]
    /\ pc = 0
    /\ results_role = <<>>
    /\ results_gender = <<>>
    /\ cg_calls = <<>>
    /\ bh_calls = <<>>

BhIdle ==
    /\ bh_pc = "idle"
    /\ bh_pvals = <<>>
    /\ bh_alpha = NaN
    /\ bh_out = NoOutput

StIdle ==
    /\ st_pc = "idle"
    /\ st_x = <<>>
    /\ st_y = <<>>
    /\ st_out = None

EwIdle ==
    /\ ew_physio = [columns |-> {}, rows |-> <<>>]
    /\ ew_events = <<>>
    /\ ew_i = 0
    /\ ew_out = <<>>
    /\ ew_samples = <<>>
    /\ ew_overview = <<>>
    /\ ew_pc = "idle"

TwIdle ==
    /\ tw_lib = None
    /\ tw_run = 0
    /\ tw_first = <<>>

SeIdle ==
    /\ se_pc = "idle"
    /\ se_p = [columns |-> {}, rows |-> <<>>]
    /\ se_event_day = NaN
    /\ se_w = Windows
    /\ se_rows = <<>>

(***************************************************************************)
(* SpecBH: bh_fdr as a pure function of a bounded batch.                   *)
(***************************************************************************)
\* p-values of the batches: 0, 0.01, 0.04, 0.20, 1 and a missing p-value
PGrid == {Num(0), R(1, 100), R(1, 25), R(1, 5), Num(1), NaN}

\* significance levels: the scripts' 0.05, a looser 0.20, and 0
AlphaGrid == {R(1, 20), R(1, 5), Num(0)}

Batches == UNION {[1..n -> PGrid] : n \in 0..MaxBatch}

InitBH ==
    /\ bh_pc = "call"
    /\ bh_pvals \in Batches
    /\ bh_alpha \in AlphaGrid
    /\ bh_out = NoOutput
    /\ CmpIdle
    /\ StIdle
    /\ SeIdle
    /\ EwIdle
    /\ TwIdle

CallBhFdr ==
    /\ bh_pc = "call"
    /\ bh_out' = bh_fdr(bh_pvals, bh_alpha)
    /\ bh_pc' = "done"
    /\ UNCHANGED <<bh_pvals, bh_alpha, cmpVars, stVars, seVars, ewVars, twVars>>

NextBH == CallBhFdr

SpecBH == InitBH /\ [][NextBH]_vars

(***************************************************************************)
(* Spec: the run of Comparison.py over two loaded datasets.                *)
(***************************************************************************)
\* cells of a metric column: missing, 0, 1
CellVals == {NaN, Num(0), Num(1)}

\* demographic cells by row: rows alternate Male/Female and change role
\* every second row, so each cohort of either contrast has rows
RoleOf(i) == IF ((i - 1) \div 2) % 2 = 0 THEN "Patients" ELSE "Caregivers"

GenderOf(i) == IF i % 2 = 1 THEN "Male" ELSE "Female"

\* demographic columns a loaded dataset may have
PhysioDemo == {{"role", "gender"}, {"role"}, {"gender"}}

PsychDemo == {{"role", "gender"}, {"role"}}

\* the loaded datasets over the candidate columns cands: any of the
\* demographic column sets demos, any subset of the candidates, any cells
Tables(cands, demos) ==
    LET rowsOf(ms) ==
            {[i \in 1..NRows |-> [role |-> RoleOf(i), gender |-> GenderOf(i), vals |-> v[i]]] :
                 v \in [1..NRows -> [ms -> CellVals]]}
    IN  UNION {{[columns |-> demo \cup ms, rows |-> rows] : rows \in rowsOf(ms)}
                  : demo \in demos, ms \in SUBSET Range(cands)}

ALPHA == R(1, 20)

Init ==
    /\ physio \in Tables(PhysioCandidates, PhysioDemo)
    /\ psych \in Tables(PsychCandidates, PsychDemo)
    /\ pc = 1
    /\ results_role = <<>>
    /\ results_gender = <<>>
    /\ cg_calls = <<>>
    /\ bh_calls = <<>>
    /\ BhIdle
    /\ StIdle
    /\ SeIdle
    /\ EwIdle
    /\ TwIdle

Item == Program(physio, psych)[pc]

DatasetOf(name) == IF name = "physio" THEN physio ELSE psych

\* one iteration of a loop of lines 143-150 / 175-184:
\* R = compare_groups(...); if R: results.append(R)
CompareStep ==
    /\ pc \in 1..Len(Program(physio, psych))
    /\ Item.op = "compare"
    /\ \E Rr \in compare_groups(DatasetOf(Item.dataset), Item.metric,
                                Contrast(Item.family).group_col,
                                Contrast(Item.family).g1, Contrast(Item.family).g2) :
          /\ results_role' = IF Item.family = "role" /\ Rr # None
                             THEN Append(results_role, Rr) ELSE results_role
          /\ results_gender' = IF Item.family = "gender" /\ Rr # None
                               THEN Append(results_gender, Rr) ELSE results_gender
    /\ cg_calls' = Append(cg_calls, [family |-> Item.family,
                                     dataset |-> Item.dataset, metric |-> Item.metric])
    /\ pc' = pc + 1
    /\ UNCHANGED <<physio, psych, bh_calls, bhVars, stVars, seVars, ewVars, twVars>>

\* lines 153-158
FdrRole ==
    /\ pc \in 1..Len(Program(physio, psych))
    /\ Item.op = "fdr" /\ Item.family = "role"
    /\ IF results_role # <<>>
       THEN /\ results_role' = with_fdr(results_role, ALPHA)
            /\ bh_calls' = Append(bh_calls,
                  [family |-> "role", after |-> cg_calls,
                   pvals |-> [i \in 1..Len(results_role) |-> results_role[i].p_value]])
       ELSE UNCHANGED <<results_role, bh_calls>>
    /\ pc' = pc + 1
    /\ UNCHANGED <<physio, psych, results_gender, cg_calls, bhVars, stVars, seVars, ewVars, twVars>>

\* the gender block correcting the role and the gender results as one batch
FdrGender_pooled ==
    /\ pc \in 1..Len(Program(physio, psych))
    /\ Item.op = "fdr" /\ Item.family = "gender"
    /\ IF results_gender # <<>>
       THEN LET both == with_fdr(results_role \o results_gender, ALPHA)
            IN  /\ results_role' = SubSeq(both, 1, Len(results_role))
                /\ results_gender' = SubSeq(both, Len(results_role) + 1, Len(both))
                /\ bh_calls' = Append(bh_calls,
                      [family |-> "gender", after |-> cg_calls,
                       pvals |-> [i \in 1..Len(results_gender) |-> results_gender[i].p_value]])
       ELSE UNCHANGED <<results_role, results_gender, bh_calls>>
    /\ pc' = pc + 1
    /\ UNCHANGED <<physio, psych, cg_calls, bhVars, stVars, seVars, ewVars, twVars>>

\* lines 186-191
FdrGender ==
    /\ pc \in 1..Len(Program(physio, psych))
    /\ Item.op = "fdr" /\ Item.family = "gender"
    /\ IF results_gender # <<>>
       THEN /\ results_gender' = with_fdr(results_gender, ALPHA)
            /\ bh_calls' = Append(bh_calls,
                  [family |-> "gender", after |-> cg_calls,
                   pvals |-> [i \in 1..Len(results_gender) |-> results_gender[i].p_value]])
       ELSE UNCHANGED <<results_gender, bh_calls>>
    /\ pc' = pc + 1
    /\ UNCHANGED <<physio, psych, results_role, cg_calls, bhVars, stVars, seVars, ewVars, twVars>>

Next == CompareStep \/ FdrRole \/ FdrGender

Spec == Init /\ [][Next]_vars

(***************************************************************************)
(* SpecStat: cohen_d, welch_ttest and compare_groups on two bounded        *)
(* samples (compare_groups on the dataset whose "Patients" rows hold the   *)
(* first sample and whose "Caregivers" rows hold the second).              *)
(***************************************************************************)
Samples == UNION {[1..n -> CellVals] : n \in 0..MaxLen}

\* the dataset of one metric column holding x in its g1 rows, y in its g2 rows
TwoCohorts(metric, g1, g2, x, y) ==
    LET rowOf(g, v) == [role |-> g, gender |-> "Male", vals |-> [m \in {metric} |-> v]]
    IN  [columns |-> {"role", "gender", metric},
         rows |-> [i \in 1..Len(x) |-> rowOf(g1, x[i])]
                      \o [i \in 1..Len(y) |-> rowOf(g2, y[i])]]

InitStat ==
    /\ st_pc = "call"
    /\ st_x \in Samples
    /\ st_y \in Samples
    /\ st_out = None
    /\ BhIdle
    /\ CmpIdle
    /\ SeIdle
    /\ EwIdle
    /\ TwIdle

CallCohenD ==
    /\ st_pc = "call"
    /\ st_out' = [d |-> cohen_d(st_x, st_y)]
    /\ st_pc' = "cohen_d"
    /\ UNCHANGED <<st_x, st_y, bhVars, cmpVars, seVars, ewVars, twVars>>

CallWelchTtest ==
    /\ st_pc = "call"
    /\ st_out' \in welch_ttest(st_x, st_y)
    /\ st_pc' = "welch_ttest"
    /\ UNCHANGED <<st_x, st_y, bhVars, cmpVars, seVars, ewVars, twVars>>

CallCompareGroups ==
    /\ st_pc = "call"
    /\ st_out' \in compare_groups(
           TwoCohorts("total_steps", "Patients", "Caregivers", st_x, st_y),
           "total_steps", "role", "Patients", "Caregivers")
    /\ st_pc' = "compare_groups"
    /\ UNCHANGED <<st_x, st_y, bhVars, cmpVars, seVars, ewVars, twVars>>

NextStat == CallCohenD \/ CallWelchTtest \/ CallCompareGroups

SpecStat == InitStat /\ [][NextStat]_vars

(***************************************************************************)
(* SpecSE: summarize_event on one participant table, event day and         *)
(* Windows.                                                                *)
(***************************************************************************)
SeMetrics == SubSeq(METRICS, 1, MaxMetrics)

\* days of the rows of a value table: three in the default baseline window
\* of an event at day 0, two in its pre-event window
SeriesDays == <<-30, -20, -14, -7, -1>>

\* cells of the first metric column: missing, or one of these values
RichCells == {NaN, Num(-20), Num(0), Num(17), Num(20), Num(23)}

\* the columns of the further metrics: a constant baseline with a drop of
\* exactly 15%, a baseline of spread 3 with a drop of exactly half of it, and
\* a baseline with a single non-missing value
LiteSeq ==
    <<<<Num(20), Num(20), Num(20), Num(17), Num(17)>>,
      <<Num(17), Num(20), Num(23), Num(17), Num(20)>>,
      <<Num(20), NaN, NaN, Num(17), Num(17)>>>>

LiteColumns == Range(LiteSeq)

Absent == <<>>

\* one column (or Absent) per metric: any cells for the first metric
ColumnChoices ==
    {[j \in 1..Len(SeMetrics) |-> IF j = 1 THEN first ELSE rest[j]] :
        first \in [1..Len(SeriesDays) -> RichCells] \cup {Absent},
        rest \in [2..Len(SeMetrics) -> LiteColumns \cup {Absent}]}

Present(ch) == {SeMetrics[j] : j \in {k \in DOMAIN ch : ch[k] # Absent}}

IdColumns == {"STUDY_PRTCPT_ID", "DaysFromTransplant"}

IndexOf(m) == CHOOSE j \in DOMAIN SeMetrics : SeMetrics[j] = m

\* the rows of participant pid from one column per present metric
SeriesRows(pid, ch) ==
    [i \in 1..Len(SeriesDays) |->
        [STUDY_PRTCPT_ID |-> pid,
         DaysFromTransplant |-> Num(SeriesDays[i]),
         vals |-> [m \in Present(ch) |-> ch[IndexOf(m)][i]]]]

ValueTables ==
    {[columns |-> IdColumns \cup Present(ch), rows |-> SeriesRows("A", ch)] :
        ch \in ColumnChoices}

\* days on and next to the bounds of the default windows of an event at day
\* 0, and a row whose day is missing
EdgeDays == <<Num(-31), Num(-30), Num(-14), Num(-13), Num(-8), Num(-7), Num(-1), Num(0), NaN>>

EdgeRow(d) ==
    [STUDY_PRTCPT_ID |-> "A",
     DaysFromTransplant |-> d,
     vals |-> [m \in Range(SeMetrics) |-> IF RLe(d, Num(-10)) THEN Num(20) ELSE Num(17)]]

\* tables with a row on any subset of EdgeDays
EdgeTables ==
    {[columns |-> IdColumns \cup Range(SeMetrics),
      rows |-> LET on(d) == d \in D
                   days == SelectSeq(EdgeDays, on)
               IN  [i \in 1..Len(days) |-> EdgeRow(days[i])]] :
        D \in SUBSET Range(EdgeDays)}

\* Windows a caller may pass: the default, a wider one, and two whose start
\* is after their end
WindowChoices ==
    {Windows,
     [pre_start |-> -8, pre_end |-> 0, base_start |-> -31, base_end |-> -13],
     [pre_start |-> -1, pre_end |-> -7, base_start |-> -30, base_end |-> -14],
     [pre_start |-> -7, pre_end |-> -1, base_start |-> -14, base_end |-> -30]}

InitSE ==
    /\ se_pc = "call"
    /\ \/ /\ se_p \in ValueTables
          /\ se_event_day = Num(0)
          /\ se_w = Windows
       \/ /\ se_p \in EdgeTables
          /\ se_event_day \in {Num(-1), Num(0), Num(1)}
          /\ se_w \in WindowChoices
    /\ se_rows = <<>>
    /\ BhIdle
    /\ CmpIdle
    /\ StIdle
    /\ EwIdle
    /\ TwIdle

\* summarize_event narrowing the caller's table to the pre-event window
CallSummarizeEvent_in_place ==
    /\ se_pc = "call"
    /\ se_rows' = summarize_event(se_p, se_event_day, SeMetrics, se_w)
    /\ se_p' = [se_p EXCEPT !.rows = Window(se_p, se_event_day, se_w.pre_start, se_w.pre_end)]
    /\ se_pc' = "returned"
    /\ UNCHANGED <<se_event_day, se_w, bhVars, cmpVars, stVars, ewVars, twVars>>

\* summarize_event has no path that raises: every call returns its rows
CallSummarizeEvent ==
    /\ se_pc = "call"
    /\ se_rows' = summarize_event(se_p, se_event_day, SeMetrics, se_w)
    /\ se_pc' = "returned"
    /\ UNCHANGED <<se_p, se_event_day, se_w, bhVars, cmpVars, stVars, ewVars, twVars>>

NextSE == CallSummarizeEvent

SpecSE == InitSE /\ [][NextSE]_vars

(***************************************************************************)
(* SpecEW: main of event_linking_basic.py, compute_summary and then        *)
(* build_overview, over a physio table of two participants and a bounded   *)
(* events table.                                                           *)
(***************************************************************************)
\* the metric columns of a participant: those of LiteSeq, and a baseline of
\* mean zero (spread 20) before a pre-event mean of 17
EwColumns == LiteSeq \o <<<<Num(-20), Num(0), Num(20), Num(17), Num(17)>>>>

\* the rows of a participant: none, or the columns of EwColumns dealt to the
\* metrics starting from the c-th
ParticipantRows(pid, c) ==
    IF c = 0 THEN <<>>
    ELSE SeriesRows(pid, [j \in 1..Len(SeMetrics) |-> EwColumns[((c + j - 2) % Len(EwColumns)) + 1]])

PhysioTables ==
    {[columns |-> IdColumns \cup Range(SeMetrics),
      rows |-> ParticipantRows("A", a) \o ParticipantRows("B", b)] :
        a \in 0..Len(EwColumns), b \in 0..Len(EwColumns)}

\* event days as loaded (pd.to_numeric): whole and fractional
EventDays == {Num(0), Num(1), R(1, 2), R(-1, 2)}

Events == [STUDY_PRTCPT_ID : {"A", "B", "Z"}, event_day : EventDays]

InitEW ==
    /\ ew_physio \in PhysioTables
    /\ ew_events \in UNION {[1..n -> Events] : n \in 0..MaxEvents}
    /\ ew_i = 1
    /\ ew_out = <<>>
    /\ ew_samples = <<>>
    /\ ew_overview = <<>>
    /\ ew_pc = "compute_summary"
    /\ BhIdle
    /\ CmpIdle
    /\ StIdle
    /\ SeIdle
    /\ TwIdle

\* lines 93-101: one iteration of the loop over the events
ProcessEvent ==
    /\ ew_pc = "compute_summary"
    /\ ew_i \in 1..Len(ew_events)
    /\ ew_out' = ew_out \o EventRows(ew_physio, ew_events[ew_i], SeMetrics)
    /\ ew_samples' =
          IF RowsOfParticipant(ew_physio, ew_events[ew_i].STUDY_PRTCPT_ID).rows = <<>>
          THEN ew_samples
          ELSE Append(ew_samples,
                      [event |-> ew_i] @@ EventSamples(ew_physio, ew_events[ew_i]))
    /\ ew_i' = ew_i + 1
    /\ UNCHANGED <<ew_physio, ew_events, ew_overview, ew_pc, bhVars, cmpVars, stVars, seVars, twVars>>

\* lines 164-165: compute_summary has returned; overview = build_overview(summary)
BuildOverview ==
    /\ ew_pc = "compute_summary"
    /\ ew_i > Len(ew_events)
    /\ ew_overview' = build_overview(ew_out)
    /\ ew_pc' = "done"
    /\ UNCHANGED <<ew_physio, ew_events, ew_i, ew_out, ew_samples, bhVars, cmpVars, stVars, seVars, twVars>>

NextEW == ProcessEvent \/ BuildOverview

SpecEW == InitEW /\ [][NextEW]_vars

(***************************************************************************)
(* SpecTwice: the role block of Comparison.py (lines 140-158: compare_groups*)
(* over both metric lists, then the correction) run twice over the same    *)
(* datasets with the same statistics library.  The library is a function  *)
(* of its inputs: the p-value it reports for the cohorts of a metric, and  *)
(* how it treats constant cohorts, are fixed for both runs.                *)
(***************************************************************************)
Libraries ==
    [p : [Range(PhysioCandidates) \cup Range(PsychCandidates) -> PValues],
     constant : {"inf", "nan"}]

\* the value Rr is the one library lib yields for metric m
Agrees(Rr, lib, m) ==
    IF Rr = None THEN TRUE
    ELSE IF SIsNaN(Rr.t_stat) THEN lib.constant = "nan" \/ Rr.mean1 = Rr.mean2
    ELSE IF Rr.t_stat[2] = Inf THEN lib.constant = "inf"
    ELSE Rr.p_value = lib.p[m]

\* lines 144 / 149: R = compare_groups(...) with library lib
RoleOutcome(df, m, lib) ==
    CHOOSE Rr \in compare_groups(df, m, "role", "Patients", "Caregivers") : Agrees(Rr, lib, m)

\* lines 143-150: the loops from item k on, appending to results
RECURSIVE Collect(_, _, _, _, _, _)
Collect(results, items, k, ph, ps, lib) ==
    IF k > Len(items) THEN results
    ELSE LET df == IF items[k].dataset = "physio" THEN ph ELSE ps
             Rr == RoleOutcome(df, items[k].metric, lib)
         IN  Collect(IF Rr # None THEN Append(results, Rr) ELSE results,
                     items, k + 1, ph, ps, lib)

\* a run that goes on with the list the previous run left
StartOfRun_keeping(previous) == previous

\* line 140: results_role = []
StartOfRun(previous) == <<>>

\* lines 140-158
RoleBlock(ph, ps, lib, previous) ==
    LET items == Items("role", "physio", ph, PhysioCandidates)
                     \o Items("role", "psych", ps, PsychCandidates)
        collected == Collect(StartOfRun(previous), items, 1, ph, ps, lib)
    IN  IF collected # <<>> THEN with_fdr(collected, ALPHA) ELSE collected

InitTwice ==
    /\ physio \in Tables(PhysioCandidates, {{"role"}})
    /\ psych \in Tables(PsychCandidates, {{"role"}})
    /\ pc = 0
    /\ results_role = <<>>
    /\ results_gender = <<>>
    /\ cg_calls = <<>>
    /\ bh_calls = <<>>
    /\ tw_lib \in Libraries
    /\ tw_run = 1
    /\ tw_first = <<>>
    /\ BhIdle
    /\ StIdle
    /\ SeIdle
    /\ EwIdle

FirstRun ==
    /\ tw_run = 1
    /\ results_role' = RoleBlock(physio, psych, tw_lib, results_role)
    /\ tw_first' = results_role'
    /\ tw_run' = 2
    /\ UNCHANGED <<physio, psych, pc, results_gender, cg_calls, bh_calls, tw_lib,
                   bhVars, stVars, seVars, ewVars>>

SecondRun ==
    /\ tw_run = 2
    /\ results_role' = RoleBlock(physio, psych, tw_lib, results_role)
    /\ tw_run' = 3
    /\ UNCHANGED <<physio, psych, pc, results_gender, cg_calls, bh_calls, tw_lib, tw_first,
                   bhVars, stVars, seVars, ewVars>>

NextTwice == FirstRun \/ SecondRun

SpecTwice == InitTwice /\ [][NextTwice]_vars

(***************************************************************************)
(* SpecCalls: any of the three programs above that take caller-owned       *)
(* tables: the run of Comparison.py (compare_groups on physio and psych),  *)
(* a call of summarize_event, or main of event_linking_basic.py.           *)
(***************************************************************************)
InitCalls == Init \/ InitSE \/ InitEW

NextCalls == Next \/ NextSE \/ NextEW

SpecCalls == InitCalls /\ [][NextCalls]_vars

(***************************************************************************)
(* Claims                                                                  *)
(***************************************************************************)
NonMissing(s) == {i \in DOMAIN s : notna(s[i])}

Constant(s) == \A i, j \in NonMissing(s) : s[i] = s[j]

Defined(x) == ~SIsNaN(x) /\ x[2] # Inf

Families == {"role", "gender"}

ResultsOf(f) == IF f = "role" THEN results_role ELSE results_gender

CallsOf(f) == {k \in DOMAIN bh_calls : bh_calls[k].family = f}

Finished == pc > Len(Program(physio, psych))

\* --- C1 ------------------------------------------------------------------
\* Benjamini-Hochberg step-up in closed form: with n p-values, the adjusted
\* value of p_i is the least p_j * n / rank_j over the p_j >= p_i, where
\* rank_j counts the p-values <= p_j, clipped to [0, 1]
StepUpRank(pvals, j) == Cardinality({k \in DOMAIN pvals : RLe(pvals[k], pvals[j])})

LeastOf(S) == CHOOSE x \in S : \A y \in S : RLe(x, y)

StepUp(pvals) ==
    [i \in DOMAIN pvals |->
        clip(LeastOf({RDiv(RMul(pvals[j], Num(Len(pvals))), Num(StepUpRank(pvals, j))) :
                         j \in {k \in DOMAIN pvals : RLe(pvals[i], pvals[k])}}),
             Num(0), Num(1))]

\* C1: for every batch of p-values in [0,1], bh_fdr returns, in input order,
\* the Benjamini-Hochberg step-up adjusted values and rejected[i] =
\* (adjusted[i] <= alpha); [0.01, 0.04, 0.20] gives [0.03, 0.06, 0.20]
C1_BhFdrIsStepUp ==
    (bh_pc = "done" /\ NonMissing(bh_pvals) = DOMAIN bh_pvals) =>
        /\ bh_out.p_adj = StepUp(bh_pvals)
        /\ bh_out.reject = [i \in DOMAIN bh_pvals |-> RLe(StepUp(bh_pvals)[i], bh_alpha)]

\* --- C2 ------------------------------------------------------------------
\* the (dataset, metric) pairs the script takes as candidates
CandidatePairs ==
    {<<"physio", m>> : m \in Range(metrics_exist(PhysioCandidates, physio))}
        \cup {<<"psych", m>> : m \in Range(metrics_exist(PsychCandidates, psych))}

\* the candidates of the datasets that have the family's grouping column
LoopedPairs(f) ==
    {c \in CandidatePairs : f = "role" \/ "gender" \in DatasetOf(c[1]).columns}

EvaluatedBefore(call, f, c) ==
    \E k \in DOMAIN call.after :
        call.after[k] = [family |-> f, dataset |-> c[1], metric |-> c[2]]

CarriesFdr(r) == "p_adj_fdr" \in DOMAIN r /\ "reject_fdr" \in DOMAIN r

CarriesNoFdr(r) == "p_adj_fdr" \notin DOMAIN r /\ "reject_fdr" \notin DOMAIN r

CollectThenCorrect(f, pairs) ==
    /\ Cardinality(CallsOf(f)) <= 1
    /\ \A k \in CallsOf(f) :
          /\ \A c \in pairs : EvaluatedBefore(bh_calls[k], f, c)
          /\ bh_calls[k].pvals = [i \in DOMAIN ResultsOf(f) |-> ResultsOf(f)[i].p_value]
    /\ \A i \in DOMAIN ResultsOf(f) :
          IF CallsOf(f) = {} THEN CarriesNoFdr(ResultsOf(f)[i])
          ELSE CarriesFdr(ResultsOf(f)[i])

\* C2 as stated: in each family run bh_fdr is invoked at most once, only
\* after compare_groups has been evaluated for every candidate metric of the
\* family, over exactly the collected p-values in collection order; no result
\* carries p_adj_fdr / reject_fdr before it and every result carries them after
C2_CorrectionAfterEveryCandidate ==
    \A f \in Families : CollectThenCorrect(f, CandidatePairs)

\* C2 amended: the same, with "every candidate metric" read as every
\* candidate metric of the datasets that have the family's grouping column
\* (the gender loops skip a dataset without a gender column)
C2_CorrectionAfterEveryLoopedCandidate ==
    \A f \in Families : CollectThenCorrect(f, LoopedPairs(f))

\* both families corrected, the gender family over the psychological
\* dataset alone because the physiological one has no gender column
C2_Witness ==
    /\ Finished
    /\ "gender" \notin physio.columns
    /\ CandidatePairs # LoopedPairs("gender")
    /\ Len(results_role) = 2 /\ Len(results_gender) = 1
    /\ CallsOf("role") # {} /\ CallsOf("gender") # {}

\* --- C3 ------------------------------------------------------------------
\* at least 2 non-missing values of metric m among the rows labelled g
CohortUsable(df, m, gc, g) ==
    Cardinality({i \in DOMAIN df.rows :
                    Cell(df.rows[i], gc) = g /\ notna(df.rows[i].vals[m])}) >= 2

Comparable(df, m, f) ==
    /\ m \in df.columns
    /\ Contrast(f).group_col \in df.columns
    /\ CohortUsable(df, m, Contrast(f).group_col, Contrast(f).g1)
    /\ CohortUsable(df, m, Contrast(f).group_col, Contrast(f).g2)

RowsOfMetric(f, m) == {i \in DOMAIN ResultsOf(f) : ResultsOf(f)[i].metric = m}

\* C3: the result table of a family holds exactly one row for each candidate
\* metric that is a column of its dataset with at least 2 non-missing values
\* in each labelled cohort, and no row for any other metric
C3_OneRowPerComparableMetric ==
    Finished =>
        \A f \in Families :
            /\ \A m \in Range(PhysioCandidates) :
                  Cardinality(RowsOfMetric(f, m)) = IF Comparable(physio, m, f) THEN 1 ELSE 0
            /\ \A m \in Range(PsychCandidates) :
                  Cardinality(RowsOfMetric(f, m)) = IF Comparable(psych, m, f) THEN 1 ELSE 0
            /\ \A i \in DOMAIN ResultsOf(f) :
                  ResultsOf(f)[i].metric \in Range(PhysioCandidates) \cup Range(PsychCandidates)

\* a physiological candidate skipped for an undersized cohort while the
\* psychological metric of the same run keeps its row
C3_Witness ==
    /\ Finished
    /\ "total_steps" \in physio.columns /\ "role" \in physio.columns
    /\ ~Comparable(physio, "total_steps", "role")
    /\ Len(results_role) = 1 /\ results_role[1].metric = "MOOD"

\* --- C4 ------------------------------------------------------------------
\* rows of the table whose day lies in [event day + start, event day + end]
\* and whose cell of metric m is not missing
UsableIn(m, start, end) ==
    {i \in DOMAIN se_p.rows :
        /\ RLe(RAdd(se_event_day, Num(start)), se_p.rows[i].DaysFromTransplant)
        /\ RLe(se_p.rows[i].DaysFromTransplant, RAdd(se_event_day, Num(end)))
        /\ notna(se_p.rows[i].vals[m])}

BaselineOf(m) == UsableIn(m, se_w.base_start, se_w.base_end)

PreEventOf(m) == UsableIn(m, se_w.pre_start, se_w.pre_end)

ShouldEmit(m) ==
    /\ m \in se_p.columns
    /\ Cardinality(BaselineOf(m)) >= 2
    /\ Cardinality(PreEventOf(m)) >= 2

RowsFor(m) == {k \in DOMAIN se_rows : se_rows[k].metric = m}

\* C4: summarize_event emits a row for a metric if and only if the column
\* exists and both windows hold at least 2 non-missing values of it (so a
\* baseline with exactly 1 yields no row, and the up-front row count never
\* suppresses a metric that qualifies)
C4_RowIffTwoValuesInEachWindow ==
    se_pc = "returned" =>
        \A m \in Range(SeMetrics) : (RowsFor(m) # {}) <=> ShouldEmit(m)

\* a metric with exactly 1 non-missing baseline value gets no row while
\* another metric of the same event gets one
C4_Witness ==
    /\ se_pc = "returned"
    /\ \E m \in Range(SeMetrics) \cap se_p.columns :
          /\ Cardinality(BaselineOf(m)) = 1
          /\ Cardinality(PreEventOf(m)) >= 2
          /\ RowsFor(m) = {}
    /\ se_rows # <<>>

\* --- C5 ------------------------------------------------------------------
ValidWindows(w) == w.pre_start <= w.pre_end /\ w.base_start <= w.base_end

\* C5: an invocation with an invalid configuration (a window whose start is
\* after its end) fails at invocation start: it does not return a result
C5_InvalidConfigurationFailsFast ==
    se_pc = "returned" => ValidWindows(se_w)

\* --- C6 ------------------------------------------------------------------
\* C6: in every emitted row warn_pct_drop is true exactly when pct_change is
\* defined and <= -0.15, and warn_sd_drop exactly when sd_change is defined
\* and <= -0.50 (inclusive: a change equal to its threshold sets the flag)
C6_FlagsAreInclusiveThresholds ==
    \A k \in DOMAIN se_rows :
        /\ se_rows[k].warn_pct_drop <=>
              (notna(se_rows[k].pct_change) /\ RLe(se_rows[k].pct_change, R(-15, 100)))
        /\ se_rows[k].warn_sd_drop <=>
              (/\ Defined(se_rows[k].sd_change)
               /\ se_rows[k].sd_change[1] = -1
               /\ RLe(R(25, 100), se_rows[k].sd_change[2]))

\* one row flagged at a change of exactly -15%, one at exactly -0.5 sd
C6_Witness ==
    /\ \E k \in DOMAIN se_rows :
          se_rows[k].pct_change = R(-15, 100) /\ se_rows[k].warn_pct_drop
    /\ \E k \in DOMAIN se_rows :
          se_rows[k].sd_change = <<-1, R(25, 100)>> /\ se_rows[k].warn_sd_drop

\* --- C7 ------------------------------------------------------------------
\* the rows of participant pid whose day d satisfies lo <= d <= hi
Observations(pid, lo, hi) ==
    LET within(row) ==
            /\ row.STUDY_PRTCPT_ID = pid
            /\ RLe(lo, row.DaysFromTransplant)
            /\ RLe(row.DaysFromTransplant, hi)
    IN  SelectSeq(ew_physio.rows, within)

\* C7: for every event the baseline sample is exactly the participant's
\* observations with event_day - 30 <= d <= event_day - 14 and the pre-event
\* sample exactly those with event_day - 7 <= d <= event_day - 1, event_day
\* being the event's day as supplied in the events table
C7_WindowsAnchoredAtSuppliedDay ==
    \A k \in DOMAIN ew_samples :
        LET ev == ew_events[ew_samples[k].event]
        IN  /\ ew_samples[k].base =
                  Observations(ev.STUDY_PRTCPT_ID, RAdd(ev.event_day, Num(-30)),
                               RAdd(ev.event_day, Num(-14)))
            /\ ew_samples[k].pre =
                  Observations(ev.STUDY_PRTCPT_ID, RAdd(ev.event_day, Num(-7)),
                               RAdd(ev.event_day, Num(-1)))

\* --- C8 ------------------------------------------------------------------
RECURSIVE TotalOver(_, _)
TotalOver(S, m) ==
    IF S = {} THEN Num(0)
    ELSE LET i == CHOOSE j \in S : TRUE
         IN  RAdd(se_p.rows[i].vals[m], TotalOver(S \ {i}, m))

MeanOver(S, m) == RDiv(TotalOver(S, m), Num(Cardinality(S)))

AllEqualOver(S, m) == \A i, j \in S : se_p.rows[i].vals[m] = se_p.rows[j].vals[m]

\* C8: in every emitted row pct_change is absent exactly when baseline_mean
\* is zero or undefined and otherwise equals delta / baseline_mean; when it
\* is absent the row is still emitted and warn_pct_drop is false
C8_PctChangeAbsentIffZeroBaseline ==
    /\ \A k \in DOMAIN se_rows :
          LET r == se_rows[k]
          IN  IF IsNaN(r.baseline_mean) \/ r.baseline_mean = Num(0)
              THEN IsNaN(r.pct_change) /\ ~r.warn_pct_drop
              ELSE r.pct_change = RDiv(r.delta_pre_minus_base, r.baseline_mean)
    /\ se_pc = "returned" =>
          \A m \in Range(SeMetrics) :
              (ShouldEmit(m) /\ MeanOver(BaselineOf(m), m) = Num(0)) =>
                  \E k \in RowsFor(m) :
                      IsNaN(se_rows[k].pct_change) /\ ~se_rows[k].warn_pct_drop

\* a row of a baseline of mean zero and a pre-event mean that differs
C8_Witness ==
    \E k \in DOMAIN se_rows :
        /\ se_rows[k].baseline_mean = Num(0)
        /\ se_rows[k].delta_pre_minus_base # Num(0)
        /\ IsNaN(se_rows[k].pct_change)

\* --- C9 ------------------------------------------------------------------
\* C9: in every emitted row sd_change is absent exactly when baseline_sd is
\* not greater than 0 and otherwise equals delta / baseline_sd; in the absent
\* case the row is still emitted with baseline_mean, the pre-window mean and
\* delta, and warn_sd_drop is false
C9_SdChangeAbsentIffNoSpread ==
    /\ \A k \in DOMAIN se_rows :
          LET r == se_rows[k]
          IN  IF Defined(r.baseline_sd) /\ r.baseline_sd[1] > 0
              THEN r.sd_change =
                       <<Sgn(r.delta_pre_minus_base[1]),
                         RDiv(RMul(r.delta_pre_minus_base, r.delta_pre_minus_base),
                              r.baseline_sd[2])>>
              ELSE /\ r.sd_change = SNaN /\ ~r.warn_sd_drop
                   /\ notna(r.baseline_mean) /\ notna(r.pre7_mean)
                   /\ r.delta_pre_minus_base = RSub(r.pre7_mean, r.baseline_mean)
    /\ se_pc = "returned" =>
          \A m \in Range(SeMetrics) :
              (ShouldEmit(m) /\ AllEqualOver(BaselineOf(m), m)) =>
                  \E k \in RowsFor(m) :
                      /\ se_rows[k].sd_change = SNaN
                      /\ se_rows[k].baseline_mean = MeanOver(BaselineOf(m), m)
                      /\ se_rows[k].pre7_mean = MeanOver(PreEventOf(m), m)

\* a row of a constant baseline and a lower pre-event mean
C9_Witness ==
    \E k \in DOMAIN se_rows :
        /\ se_rows[k].baseline_sd = <<0, Num(0)>>
        /\ se_rows[k].delta_pre_minus_base[1] < 0
        /\ se_rows[k].sd_change = SNaN

\* --- C10 -----------------------------------------------------------------
\* the pooled variance is non-positive exactly when neither sample varies
Degenerate(x, y) == Constant(x) /\ Constant(y)

C11_WelchAbsentWhenUndersized ==
    (/\ st_pc = "welch_ttest"
     /\ \/ Cardinality(NonMissing(st_x)) < 2
        \/ Cardinality(NonMissing(st_y)) < 2) =>
        st_out = [t |-> SNaN, p |-> NaN]

\* a first sample of raw length 3 with a single non-missing value, against a
\* second sample with 2 non-missing values
C11_Witness ==
    /\ st_pc = "welch_ttest"
    /\ Len(st_x) = 3 /\ Cardinality(NonMissing(st_x)) = 1
    /\ Cardinality(NonMissing(st_y)) >= 2
    /\ st_out = [t |-> SNaN, p |-> NaN]

\* --- C12 -----------------------------------------------------------------
\* C12: for samples with at least 2 non-missing values each and positive
\* pooled variance, cohen_d(x, y) = -cohen_d(y, x)
C12_CohenDAntisymmetric ==
    (/\ st_pc = "cohen_d"
     /\ Cardinality(NonMissing(st_x)) >= 2
     /\ Cardinality(NonMissing(st_y)) >= 2
     /\ ~Degenerate(st_x, st_y)) =>
        /\ Defined(st_out.d)
        /\ st_out.d = SNeg(cohen_d(st_y, st_x))

\* a positive effect size, whose swapped counterpart is negative
C12_Witness ==
    /\ st_pc = "cohen_d"
    /\ Defined(st_out.d)
    /\ st_out.d[1] = 1
    /\ cohen_d(st_y, st_x)[1] = -1

\* --- C13 -----------------------------------------------------------------
\* C13: within one batch, adjusted p-values are non-decreasing in the raw
\* p-values: raw p_i <= raw p_j implies adjusted_i <= adjusted_j
C13_AdjustedMonotoneInRaw ==
    bh_pc = "done" =>
        \A i, j \in DOMAIN bh_pvals :
            RLe(bh_pvals[i], bh_pvals[j]) => RLe(bh_out.p_adj[i], bh_out.p_adj[j])

\* --- C14 -----------------------------------------------------------------
\* the window rows of metric m
WindowRowsOf(m) == {k \in DOMAIN ew_out : ew_out[k].metric = m}

RECURSIVE SumOver(_, _)
SumOver(S, value) ==
    IF S = {} THEN Num(0)
    ELSE LET k == CHOOSE j \in S : TRUE
         IN  RAdd(value[k], SumOver(S \ {k}, value))

\* the mean of value over the rows of S, absent over no rows
MeanOfRows(S, value) ==
    IF S = {} THEN NaN ELSE RDiv(SumOver(S, value), Num(Cardinality(S)))

\* the changes of the window rows, by row
PctOf == [k \in DOMAIN ew_out |-> ew_out[k].pct_change]

SdOf == [k \in DOMAIN ew_out |-> RootValue(ew_out[k].sd_change)]

\* C14: each metric's mean pct_change and mean sd_change in the overview are
\* the means over only the window rows of that metric in which the value is
\* defined; rows in which it is absent are excluded, not counted as zero
C14_OverviewMeansSkipAbsent ==
    ew_pc = "done" =>
        \A o \in DOMAIN ew_overview :
            LET m == ew_overview[o].metric
            IN  /\ ew_overview[o].pct_change =
                      MeanOfRows({k \in WindowRowsOf(m) : notna(PctOf[k])}, PctOf)
                /\ ew_overview[o].sd_change =
                      MeanOfRows({k \in WindowRowsOf(m) : notna(SdOf[k])}, SdOf)

\* a metric with two window rows, one with both changes defined and not
\* zero; the other lacks pct_change for one metric and sd_change for another
C14_Witness ==
    /\ ew_pc = "done"
    /\ \E m \in Range(SeMetrics) :
          /\ \E k \in WindowRowsOf(m) : IsNaN(PctOf[k])
          /\ \E k \in WindowRowsOf(m) : notna(PctOf[k]) /\ PctOf[k] # Num(0)
    /\ \E m \in Range(SeMetrics) :
          /\ \E k \in WindowRowsOf(m) : IsNaN(SdOf[k])
          /\ \E k \in WindowRowsOf(m) : notna(SdOf[k]) /\ SdOf[k] # Num(0)

\* --- C15 -----------------------------------------------------------------
\* C15: compare_groups, summarize_event and compute_summary never mutate
\* caller-owned data: across every step of every sequence of invocations the
\* datasets, the participant table, the physio table and the events table
\* keep their rows, columns and values
C15_InputsNeverMutated ==
    [][/\ physio' = physio
       /\ psych' = psych
       /\ se_p' = se_p
       /\ ew_physio' = ew_physio
       /\ ew_events' = ew_events]_vars

\* compare_groups invoked four times on two datasets with rows, each contrast
\* with a result
C15_Witness ==
    /\ Finished
    /\ Len(cg_calls) = 4
    /\ physio.rows # <<>> /\ psych.rows # <<>>
    /\ results_role # <<>> /\ results_gender # <<>>

OwnObservations(pid) ==
    LET own(row) == row.STUDY_PRTCPT_ID = pid
    IN  [columns |-> ew_physio.columns, rows |-> SelectSeq(ew_physio.rows, own)]

\* C17: the window rows emitted for an event of participant P are those
\* computed from P's own observations and that event's day alone: the
\* observations of other participants and the other events of the table
\* (those already processed included) do not enter
C17_RowsDependOnOwnSeriesOnly ==
    [][ew_i' = ew_i + 1 =>
          ew_out' = ew_out \o EventRows(OwnObservations(ew_events[ew_i].STUDY_PRTCPT_ID),
                                        ew_events[ew_i], SeMetrics)]_vars

\* rows emitted for an event of each of two participants whose baselines of
\* the same metric differ
C17_Witness ==
    /\ ew_i > Len(ew_events)
    /\ \E j, k \in DOMAIN ew_out :
          /\ ew_out[j].STUDY_PRTCPT_ID = "A"
          /\ ew_out[k].STUDY_PRTCPT_ID = "B"
          /\ ew_out[j].metric = ew_out[k].metric
          /\ ew_out[j].baseline_mean # ew_out[k].baseline_mean

\* --- C18 -----------------------------------------------------------------
PValuesOf(f) == [i \in DOMAIN ResultsOf(f) |-> ResultsOf(f)[i].p_value]

\* C18: the two contrasts are corrected as separate batches: from its
\* correction on, through every later step of the run, each role result
\* carries the adjusted value and flag of the batch of the role p-values
\* alone, and each gender result those of the batch of the gender p-values
\* alone
C18_FamiliesCorrectedSeparately ==
    \A f \in Families :
        CallsOf(f) # {} =>
            \A i \in DOMAIN ResultsOf(f) :
                /\ ResultsOf(f)[i].p_adj_fdr = bh_fdr(PValuesOf(f), ALPHA).p_adj[i]
                /\ ResultsOf(f)[i].reject_fdr = bh_fdr(PValuesOf(f), ALPHA).reject[i]

\* both contrasts corrected, the role results rejected and the gender
\* results, with larger p-values, not
C18_Witness ==
    /\ Finished
    /\ CallsOf("role") # {} /\ CallsOf("gender") # {}
    /\ \E i \in DOMAIN results_role : \E j \in DOMAIN results_gender :
          /\ RLt(results_role[i].p_adj_fdr, results_gender[j].p_adj_fdr)
          /\ results_role[i].reject_fdr /\ ~results_gender[j].reject_fdr

\* --- C20 -----------------------------------------------------------------
\* record r extended by p_adj_fdr and reject_fdr, every field of q kept
AddsFdrOnly(q, r) ==
    /\ DOMAIN r = DOMAIN q \cup {"p_adj_fdr", "reject_fdr"}
    /\ \A field \in DOMAIN q : r[field] = q[field]

\* C20: a correction block only adds p_adj_fdr and reject_fdr to each
\* collected result: it changes no other field of any result and does not
\* add, drop or reorder results (nor touch the other contrast's results)
C20_CorrectionOnlyAddsFdrFields ==
    [][(pc \in 1..Len(Program(physio, psych)) /\ Item.op = "fdr") =>
          \A f \in Families :
              IF f = Item.family /\ ResultsOf(f) # <<>>
              THEN /\ Len(ResultsOf(f)') = Len(ResultsOf(f))
                   /\ \A i \in DOMAIN ResultsOf(f) :
                         AddsFdrOnly(ResultsOf(f)[i], ResultsOf(f)'[i])
              ELSE ResultsOf(f)' = ResultsOf(f)]_vars

\* a corrected batch of two results, one of which got an adjusted value
\* other than its raw p-value
C20_Witness ==
    /\ Finished
    /\ Len(results_role) = 2
    /\ \A i \in DOMAIN results_role : CarriesFdr(results_role[i])
    /\ \E i \in DOMAIN results_role : results_role[i].p_adj_fdr # results_role[i].p_value

\* --- C19 -----------------------------------------------------------------
OverviewRowsOf(m) == {o \in DOMAIN ew_overview : ew_overview[o].metric = m}

FlaggedByPct(m) == {k \in WindowRowsOf(m) : ew_out[k].warn_pct_drop}

FlaggedBySd(m) == {k \in WindowRowsOf(m) : ew_out[k].warn_sd_drop}

\* the events of participants with observations that emitted no row of m
SkippedFor(m) ==
    {e \in DOMAIN ew_events :
        /\ \E i \in DOMAIN ew_physio.rows :
              ew_physio.rows[i].STUDY_PRTCPT_ID = ew_events[e].STUDY_PRTCPT_ID
        /\ \A k \in WindowRowsOf(m) :
              ew_out[k].STUDY_PRTCPT_ID # ew_events[e].STUDY_PRTCPT_ID}

\* C19: each metric with at least one emitted window row appears exactly
\* once in the overview (and no other metric does); its
\* share_events_flagged_by_pct is (window rows of the metric with
\* warn_pct_drop) / (window rows of the metric), and share_events_flagged_by_sd
\* the same from warn_sd_drop: skipped events are not in the denominator,
\* rows whose change is absent are, as not flagged
C19_SharesOverEmittedRows ==
    ew_pc = "done" =>
        /\ \A m \in Range(METRICS) :
              Cardinality(OverviewRowsOf(m)) = IF WindowRowsOf(m) = {} THEN 0 ELSE 1
        /\ \A o \in DOMAIN ew_overview :
              LET m == ew_overview[o].metric
              IN  /\ m \in Range(METRICS)
                  /\ ew_overview[o].share_events_flagged_by_pct =
                        R(Cardinality(FlaggedByPct(m)), Cardinality(WindowRowsOf(m)))
                  /\ ew_overview[o].share_events_flagged_by_sd =
                        R(Cardinality(FlaggedBySd(m)), Cardinality(WindowRowsOf(m)))

\* one metric flagged by sd in 1 of its 2 rows, the other row without an
\* sd_change; another metric with a skipped event and every emitted row flagged
C19_Witness ==
    /\ ew_pc = "done"
    /\ \E o \in DOMAIN ew_overview :
          /\ ew_overview[o].share_events_flagged_by_sd = R(1, 2)
          /\ \E k \in WindowRowsOf(ew_overview[o].metric) :
                IsNaN(SdOf[k]) /\ ~ew_out[k].warn_sd_drop
    /\ \E o \in DOMAIN ew_overview :
          /\ ew_overview[o].share_events_flagged_by_sd = Num(1)
          /\ SkippedFor(ew_overview[o].metric) # {}

\* --- C21 -----------------------------------------------------------------
\* C21: for every batch of p-values in [0,1], each adjusted p-value is at
\* least the corresponding raw p-value, so a test with raw p > alpha is never
\* rejected
C21_AdjustedAtLeastRaw ==
    (bh_pc = "done" /\ NonMissing(bh_pvals) = DOMAIN bh_pvals) =>
        \A i \in DOMAIN bh_pvals :
            /\ RLe(bh_pvals[i], bh_out.p_adj[i])
            /\ RLt(bh_alpha, bh_pvals[i]) => ~bh_out.reject[i]

\* --- C22 -----------------------------------------------------------------
\* C22: in a corrected batch, p_adj_fdr is defined exactly for the results
\* whose p_value is defined, and every result with an absent p_value has
\* reject_fdr = false
C22_AbsentPValueStaysApart ==
    \A f \in Families :
        CallsOf(f) # {} =>
            \A i \in DOMAIN ResultsOf(f) :
                /\ notna(ResultsOf(f)[i].p_adj_fdr) <=> notna(ResultsOf(f)[i].p_value)
                /\ IsNaN(ResultsOf(f)[i].p_value) => ~ResultsOf(f)[i].reject_fdr

\* --- C23 -----------------------------------------------------------------
\* C23: whenever warn_pct_drop is true for an emitted window row, the
\* pre-event mean is lower than the baseline mean (delta_pre_minus_base < 0),
\* negative baseline means included
C23_PctFlagMeansLowerPreEventMean ==
    \A k \in DOMAIN se_rows :
        se_rows[k].warn_pct_drop => RLt(se_rows[k].delta_pre_minus_base, Num(0))

=============================================================================
